---- MODULE Spec2Model ----
(***************************************************************************)
(* A model of the Chloroaromatics tool set:                                *)
(*   geometry_file_generator.py  - base isomer decks, anion and neutral    *)
(*                                 radical intermediate decks              *)
(*   scrape_frequency_logs.py    - the dG / LUMO log scraper               *)
(*   frequency_file_generator.py - the frequency deck generator            *)
(* Text is modelled as a sequence of one-character strings, so that        *)
(* joining, splitting, stripping and sorting are computed, not assumed.    *)
(***************************************************************************)
EXTENDS Integers, Sequences, FiniteSets, TLC

VARIABLES
    outDir,           \* the GJF_OUTPUT_DIR setting of the generator run
    fs,               \* the file system seen by the generator: path -> deck
    pc,               \* the position of __main__ of the generator
    idx,              \* index into CHLORINE_POSITIONS of the running loop
    run,              \* which run of the generator script this is
    generated_files,  \* __main__'s generated_files list
    lastCall,         \* the last generate_* call: function, argument, writes, return
    writeLog,         \* every open(filepath, "w") of this run, in order
    fsAfterRun1,      \* the file system as the first run left it
    stem,             \* derive_name_from_stem: the argument
    derived,          \* derive_name_from_stem: the value returned, once called
    inDir,            \* scraper: the --input-dir as found on disk
    ext,              \* scraper: the --ext setting
    exitCode,         \* scraper: the exit code of main, -1 while it has not exited
    outTable,         \* scraper: the CSV written, <<>> while there is none
    warnings,         \* scraper: the files reported on stderr as unreadable
    completedDir,     \* frequency generator: geometry_inputs_completed on disk
    freqOut,          \* frequency generator: frequency_inputs, path -> deck
    attempts,         \* frequency generator: every open(output_filepath, "w"), in order
    generated_count,  \* frequency generator: the count of the summary line
    freqPc            \* frequency generator: where generate_frequency_files ended

genVars == <<outDir, fs, pc, idx, run, generated_files, lastCall, writeLog, fsAfterRun1>>

nameVars == <<stem, derived>>

scrapeVars == <<inDir, ext, exitCode, outTable, warnings>>

freqVars == <<completedDir, freqOut, attempts, generated_count, freqPc>>

vars == <<genVars, nameVars, scrapeVars, freqVars>>

-----------------------------------------------------------------------------
(* Text helpers *)

Last(s) == s[Len(s)]

InSeq(x, s) == \E j \in 1..Len(s) : s[j] = x

\* str(i) for a position 1..6
Str(i) == << <<"1">>, <<"2">>, <<"3">>, <<"4">>, <<"5">>, <<"6">> >>[i]

\* the code points of the characters file names are made of here
CharCode ==
    (" " :> 32) @@ ("." :> 46) @@ ("B" :> 66) @@ ("_" :> 95) @@ ("a" :> 97)
    @@ ("b" :> 98) @@ ("c" :> 99) @@ ("f" :> 102) @@ ("g" :> 103) @@ ("j" :> 106)
    @@ ("l" :> 108) @@ ("o" :> 111) @@ ("r" :> 114) @@ ("s" :> 115)
    @@ ("t" :> 116) @@ ("u" :> 117) @@ ("x" :> 120) @@ ("y" :> 121)

RECURSIVE TextLess(_, _)
\* a < b for two Python strings
TextLess(a, b) ==
    IF a = <<>> THEN b # <<>>
    ELSE IF b = <<>> THEN FALSE
    ELSE IF Head(a) # Head(b) THEN CharCode[Head(a)] < CharCode[Head(b)]
    ELSE TextLess(Tail(a), Tail(b))

RECURSIVE Sorted(_)
\* sorted(names) for a set of texts
Sorted(names) ==
    IF names = {} THEN <<>>
    ELSE LET least == CHOOSE n \in names : \A m \in names \ {n} : TextLess(n, m)
         IN  <<least>> \o Sorted(names \ {least})

\* the 1-based index of the last occurrence of character c in text, 0 if none
RFind(text, c) ==
    LET at == {j \in 1..Len(text) : text[j] = c}
    IN  IF at = {} THEN 0 ELSE CHOOSE j \in at : \A m \in at : m <= j

\* name.endswith(suffix)
EndsWith(name, suffix) ==
    /\ Len(name) >= Len(suffix)
    /\ SubSeq(name, Len(name) - Len(suffix) + 1, Len(name)) = suffix

RECURSIVE Join(_)
\* "".join(parts) for a sequence of texts
Join(parts) == IF parts = <<>> THEN <<>> ELSE Head(parts) \o Join(Tail(parts))

-----------------------------------------------------------------------------
(* geometry_file_generator.py: the tables *)

C_ATOMS == <<
    [el |-> "C", coords |-> "-3.20928   0.19943  0.00000"],
    [el |-> "C", coords |-> "-2.01150   0.93555  0.00000"],
    [el |-> "C", coords |-> "-0.77511   0.26630  0.00000"],
    [el |-> "C", coords |-> "-0.73650  -1.13907  0.00000"],
    [el |-> "C", coords |-> "-1.93429  -1.87519  0.00000"],
    [el |-> "C", coords |-> "-3.17067  -1.20594  0.00000"] >>

SUBSTITUENT_COORDS == <<
    "-4.67483  -2.13035  0.00000",
    "-4.76193   1.03987 -0.00000",
    " 0.81614  -1.97951  0.00000",
    "-1.88580  -3.64003  0.00000",
    "-2.05998   2.70040 -0.00000",
    " 0.72905   1.19071  0.00000" >>

CHLORINE_POSITIONS == <<
    <<1>>,
    <<1, 2>>, <<1, 3>>, <<1, 4>>,
    <<1, 2, 3>>, <<1, 2, 4>>, <<1, 3, 5>>,
    <<1, 2, 3, 4>>, <<1, 2, 3, 5>>, <<1, 2, 4, 5>>,
    <<1, 2, 3, 4, 5>>,
    <<1, 2, 3, 4, 5, 6>> >>

\* f"Cl {coords}" and f"H  {coords}": one atom line
AtomLine(el, coords) == [el |-> el, coords |-> coords]

ClBz == <<"C", "l", "B", "z">>
AnionSuffix == ClBz \o <<"A","n","i","o","n","I","n","t","e","r","m","e","d","i","a","t","e">>
RadicalSuffix == ClBz \o <<"N","e","u","t","r","a","l","R","a","d","i","c","a","l">>
GjfExt == <<".", "g", "j", "f">>

\* GAUSSIAN_HEADER.format(...) + "\n".join(all_atoms) + "\n\n": the template is
\* fixed, so a deck is its four interpolated fields and its atom lines
Deck(filename_base, title, charge, multiplicity, all_atoms) ==
    [chk |-> filename_base, title |-> title, charge |-> charge,
     multiplicity |-> multiplicity, atoms |-> all_atoms]

\* os.path.join(OUTPUT_DIR, f"{filename_base}.gjf")
GjfPath(dir, filename_base) == [dir |-> dir, name |-> filename_base \o GjfExt]

\* the file opened in append mode: an existing deck keeps its atom lines
WriteFileAppend(files, filepath, content) ==
    [p \in DOMAIN files \cup {filepath} |->
        IF p # filepath THEN files[p]
        ELSE IF filepath \in DOMAIN files
        THEN [content EXCEPT !.atoms = files[filepath].atoms \o content.atoms]
        ELSE content]

\* with open(filepath, "w") as f: f.write(content)
WriteFile(files, filepath, content) ==
    [p \in DOMAIN files \cup {filepath} |->
        IF p = filepath THEN content ELSE files[p]]

RECURSIVE WriteAll(_, _)
\* the writes of one call, applied in order
WriteAll(files, results) ==
    IF results = <<>> THEN files
    ELSE WriteAll(WriteFile(files, Head(results).filepath, Head(results).content),
                  Tail(results))

-----------------------------------------------------------------------------
(* generate_gjf_files *)

PositionString(position_list) ==
    Join([j \in 1..Len(position_list) |-> Str(position_list[j])])

\* the membership test made on the 0-based loop index
BaseAtomsZeroBased(position_list) ==
    C_ATOMS \o [i \in 1..6 |->
        IF InSeq(i - 1, position_list)
        THEN AtomLine("Cl", SUBSTITUENT_COORDS[i])
        ELSE AtomLine("H", SUBSTITUENT_COORDS[i])]

BaseAtoms(position_list) ==
    C_ATOMS \o [i \in 1..6 |->
        IF InSeq(i, position_list)
        THEN AtomLine("Cl", SUBSTITUENT_COORDS[i])
        ELSE AtomLine("H", SUBSTITUENT_COORDS[i])]

BaseDeck(position_list) ==
    LET position_string == PositionString(position_list)
        filename_base == position_string \o ClBz
        title == [label |-> "Chloro-Benzene", n |-> Len(position_list),
                  removed |-> 0, pattern |-> position_string]
    IN  [base |-> filename_base,
         content |-> Deck(filename_base, title, "0", "1", BaseAtoms(position_list))]

-----------------------------------------------------------------------------
(* generate_anion_intermediates *)

RECURSIVE AnionPattern(_, _, _)
\* the loop "for i in range(1, 7)" building pattern_parts, from site i on
AnionPattern(original_positions, removed, i) ==
    IF i > 6 THEN <<>>
    ELSE (IF InSeq(i, original_positions)
          THEN (IF i = removed THEN <<"_">> ELSE Str(i))
          ELSE <<>>)
         \o AnionPattern(original_positions, removed, i + 1)

\* tuple(p for p in original_positions if p != removed)
AnionNewPositions(original_positions, removed) ==
    SelectSeq(original_positions, LAMBDA p : p # removed)

RECURSIVE AnionAtomsNoSkip(_, _, _)
\* the removed site falls through to the hydrogen branch
AnionAtomsNoSkip(new_positions, removed, i) ==
    IF i > 5 THEN <<>>
    ELSE (IF InSeq(i + 1, new_positions)
          THEN <<AtomLine("Cl", SUBSTITUENT_COORDS[i + 1])>>
          ELSE <<AtomLine("H", SUBSTITUENT_COORDS[i + 1])>>)
         \o AnionAtomsNoSkip(new_positions, removed, i + 1)

RECURSIVE AnionAtoms(_, _, _)
\* the loop "for i in range(6)" appending to all_atoms, from index i on
AnionAtoms(new_positions, removed, i) ==
    IF i > 5 THEN <<>>
    ELSE (IF InSeq(i + 1, new_positions)
          THEN <<AtomLine("Cl", SUBSTITUENT_COORDS[i + 1])>>
          ELSE IF i = removed - 1
          THEN <<>>
          ELSE <<AtomLine("H", SUBSTITUENT_COORDS[i + 1])>>)
         \o AnionAtoms(new_positions, removed, i + 1)

\* the file name as the docstring spells it: '12_45_ClBzAnionIntermediate'
AnionOneDocstringName(dir, original_positions, removed) ==
    LET pattern == AnionPattern(original_positions, removed, 1)
        filename_base == pattern \o <<"_">> \o AnionSuffix
        title == [label |-> "Anion Intermediate", n |-> 0,
                  removed |-> removed, pattern |-> pattern]
        new_positions == AnionNewPositions(original_positions, removed)
        all_atoms == C_ATOMS \o AnionAtoms(new_positions, removed, 0)
    IN  [filepath |-> GjfPath(dir, filename_base),
         content |-> Deck(filename_base, title, "-1", "0", all_atoms)]

\* one iteration of "for removed in original_positions"
AnionOne(dir, original_positions, removed) ==
    LET pattern == AnionPattern(original_positions, removed, 1)
        filename_base == pattern \o AnionSuffix
        title == [label |-> "Anion Intermediate", n |-> 0,
                  removed |-> removed, pattern |-> pattern]
        new_positions == AnionNewPositions(original_positions, removed)
        all_atoms == C_ATOMS \o AnionAtoms(new_positions, removed, 0)
    IN  [filepath |-> GjfPath(dir, filename_base),
         content |-> Deck(filename_base, title, "-1", "0", all_atoms)]

\* the results list of generate_anion_intermediates
AnionResults(dir, position_list) ==
    [j \in 1..Len(position_list) |-> AnionOne(dir, position_list, position_list[j])]

-----------------------------------------------------------------------------
(* generate_neutral_radicals_intermediates *)

RECURSIVE RadicalPattern(_, _, _)
RadicalPattern(original_positions, removed, i) ==
    IF i > 6 THEN <<>>
    ELSE (IF InSeq(i, original_positions)
          THEN (IF i = removed THEN <<"_">> ELSE Str(i))
          ELSE <<>>)
         \o RadicalPattern(original_positions, removed, i + 1)

RadicalNewPositions(original_positions, removed) ==
    SelectSeq(original_positions, LAMBDA p : p # removed)

RECURSIVE RadicalAtomsOneBased(_, _, _)
\* the skip test made on the 1-based position: the site after the removed
\* one is dropped instead
RadicalAtomsOneBased(new_positions, removed, i) ==
    IF i > 5 THEN <<>>
    ELSE (IF InSeq(i + 1, new_positions)
          THEN <<AtomLine("Cl", SUBSTITUENT_COORDS[i + 1])>>
          ELSE IF i = removed
          THEN <<>>
          ELSE <<AtomLine("H", SUBSTITUENT_COORDS[i + 1])>>)
         \o RadicalAtomsOneBased(new_positions, removed, i + 1)

RECURSIVE RadicalAtoms(_, _, _)
RadicalAtoms(new_positions, removed, i) ==
    IF i > 5 THEN <<>>
    ELSE (IF InSeq(i + 1, new_positions)
          THEN <<AtomLine("Cl", SUBSTITUENT_COORDS[i + 1])>>
          ELSE IF i = removed - 1
          THEN <<>>
          ELSE <<AtomLine("H", SUBSTITUENT_COORDS[i + 1])>>)
         \o RadicalAtoms(new_positions, removed, i + 1)

RadicalOne(dir, original_positions, removed) ==
    LET pattern == RadicalPattern(original_positions, removed, 1)
        filename_base == pattern \o RadicalSuffix
        title == [label |-> "Neutral Radical", n |-> 0,
                  removed |-> removed, pattern |-> pattern]
        new_positions == RadicalNewPositions(original_positions, removed)
        all_atoms == C_ATOMS \o RadicalAtoms(new_positions, removed, 0)
    IN  [filepath |-> GjfPath(dir, filename_base),
         content |-> Deck(filename_base, title, "0", "2", all_atoms)]

RadicalResults(dir, position_list) ==
    [j \in 1..Len(position_list) |-> RadicalOne(dir, position_list, position_list[j])]

-----------------------------------------------------------------------------
(* The values a generate_* call returns.  Python returns either a          *)
(* (filepath, content) tuple, a bare filepath, or a list of tuples; the    *)
(* kind field keeps them apart.                                            *)

NoPath == [dir |-> "", name |-> <<>>]

ReturnTuple(filepath, content) ==
    [kind |-> "tuple", filepath |-> filepath, list |-> <<[filepath |-> filepath, content |-> content]>>]

ReturnPath(filepath) == [kind |-> "path", filepath |-> filepath, list |-> <<>>]

ReturnList(results) == [kind |-> "list", filepath |-> NoPath, list |-> results]

\* "return filepath" at the end of generate_anion_intermediates: the loop
\* variable of the last iteration
AnionReturn(results) == ReturnPath(Last(results).filepath)

\* "return filepath" at the end of generate_neutral_radicals_intermediates
RadicalReturn(results) == ReturnPath(Last(results).filepath)

-----------------------------------------------------------------------------
(* scrape_frequency_logs.py: derive_name_from_stem *)

RECURSIVE LStrip(_, _)
LStrip(text, chars) ==
    IF text # <<>> /\ Head(text) \in chars THEN LStrip(Tail(text), chars) ELSE text

RECURSIVE RStrip(_, _)
RStrip(text, chars) ==
    IF text # <<>> /\ Last(text) \in chars
    THEN RStrip(SubSeq(text, 1, Len(text) - 1), chars)
    ELSE text

\* text.strip(chars): both ends
Strip(text, chars) == RStrip(LStrip(text, chars), chars)

\* stem.rsplit("_", 1)[0]
RSplitLeft(text) == SubSeq(text, 1, RFind(text, "_") - 1)

derive_name_from_stem(s) ==
    LET left == IF InSeq("_", s) THEN RSplitLeft(s) ELSE s
        stripped == Strip(left, {" ", "_"})
    IN  IF stripped = <<>> THEN s ELSE stripped

MaxStemLen == 3

StemChars == {"a", "B", "_", " "}

RECURSIVE TextsUpTo(_)
TextsUpTo(n) ==
    IF n = 0 THEN {<<>>}
    ELSE LET shorter == TextsUpTo(n - 1)
         IN  shorter \cup {Append(t, c) : t \in shorter, c \in StemChars}

\* the stems tried: every text up to MaxStemLen, and the documented examples
StemInputs ==
    TextsUpTo(MaxStemLen) \cup
    { <<"m","o","l","_","r","u","n","_","B","a","z">>,
      <<"f","o","o","_","b","a","r","_","B","a","z">>,
      <<"B","a","z">> }

NotCalled == [called |-> FALSE, value |-> <<>>]

NameInit ==
    /\ stem \in StemInputs
    /\ derived = NotCalled

DeriveName ==
    /\ ~derived.called
    /\ derived' = [called |-> TRUE, value |-> derive_name_from_stem(stem)]
    /\ UNCHANGED stem

-----------------------------------------------------------------------------
(* scrape_frequency_logs.py: extract_values and main *)

\* A log text is its lines.  A line is the free-energy marker followed by the
\* numeric token DG_RE captures (nums empty when no number follows), an
\* "Alpha virt. eigenvalues --" line with the numbers NUMBER_RE finds after the
\* marker, or any other line.
DgLine(nums) == [kind |-> "dg", nums |-> nums]
AlphaLine(nums) == [kind |-> "alpha", nums |-> nums]
OtherLine == [kind |-> "other", nums |-> <<>>]

\* None is <<>>, a found value v is <<v>>
extract_values(text) ==
    LET dgs == SelectSeq(text, LAMBDA l : l.kind = "dg" /\ l.nums # <<>>)
        dG == IF dgs # <<>> THEN <<Last(dgs).nums[1]>> ELSE <<>>
        alpha_matches == SelectSeq(text, LAMBDA l : l.kind = "alpha")
        lumo == IF alpha_matches # <<>> /\ Last(alpha_matches).nums # <<>>
                THEN <<Last(alpha_matches).nums[1]>>
                ELSE <<>>
    IN  [dG |-> dG, lumo |-> lumo]

\* Path.stem: the name without its last suffix
PathStem(name) ==
    LET i == RFind(name, ".")
    IN  IF 1 < i /\ i < Len(name) THEN SubSeq(name, 1, i - 1) ELSE name

\* in_dir.glob(f"*{args.ext}")
Glob(entries, e) == {f \in entries : EndsWith(f.name, e)}

\* (name, dG if dG is not None else "", lumo if lumo is not None else "")
Row(f) ==
    LET v == extract_values(f.text)
    IN  [name |-> derive_name_from_stem(PathStem(f.name)),
         dG |-> IF v.dG # <<>> THEN v.dG[1] ELSE "",
         lumo |-> IF v.lumo # <<>> THEN v.lumo[1] ELSE ""]

FileNamed(entries, name) == CHOOSE f \in entries : f.name = name

RECURSIVE ScrapeStopAtUnreadable(_, _, _)
\* the first unreadable file ends the loop
ScrapeStopAtUnreadable(entries, files, acc) ==
    IF files = <<>> THEN acc
    ELSE LET f == FileNamed(entries, Head(files))
         IN  IF ~f.readable
             THEN [acc EXCEPT !.warnings = Append(@, f.name)]
             ELSE ScrapeStopAtUnreadable(entries, Tail(files),
                                         [acc EXCEPT !.rows = Append(@, Row(f))])

RECURSIVE ScrapeLoop(_, _, _)
\* "for f in files": read_text, extract_values, derive the name, append the row
ScrapeLoop(entries, files, acc) ==
    IF files = <<>> THEN acc
    ELSE LET f == FileNamed(entries, Head(files))
         IN  IF ~f.readable
             THEN ScrapeLoop(entries, Tail(files),
                             [acc EXCEPT !.warnings = Append(@, f.name)])
             ELSE ScrapeLoop(entries, Tail(files),
                             [acc EXCEPT !.rows = Append(@, Row(f))])

CsvHeader == <<"Name", "dG", "LUMO">>

LogExt == <<".", "l", "o", "g">>
OutExt == <<".", "o", "u", "t">>

LogTexts == {
    <<>>,
    <<DgLine(<<"-1.5">>), OtherLine, AlphaLine(<<"0.5">>),
      DgLine(<<"-123.456">>), AlphaLine(<<"0.012", "0.034">>)>>,
    <<AlphaLine(<<"0.5">>), DgLine(<<>>), AlphaLine(<<>>)>>,
    <<OtherLine, DgLine(<<"-7.25">>)>> }

ScrapeNames == {
    <<"b", "_", "r">> \o LogExt,
    <<"a", "_", "x", "_", "y">> \o LogExt,
    <<"B">> \o LogExt,
    <<"a">> \o OutExt }

\* what one name of the directory may be: a file that can be read, with its
\* text, or something read_text fails on
FileStates ==
    {[readable |-> FALSE, text |-> <<>>]}
    \cup {[readable |-> TRUE, text |-> t] : t \in LogTexts}

DirectoryListings ==
    UNION { { {[name |-> n, readable |-> c[n].readable, text |-> c[n].text] :
                n \in present} : c \in [present -> FileStates] } :
            present \in SUBSET ScrapeNames }

ScrapeInit ==
    /\ \/ \E st \in {"missing", "notdir"} : inDir = [state |-> st, entries |-> {}]
       \/ \E es \in DirectoryListings : inDir = [state |-> "dir", entries |-> es]
    /\ ext \in {LogExt, OutExt}
    /\ exitCode = -1
    /\ outTable = <<>>
    /\ warnings = <<>>

\* main, when in_dir does not exist or is not a directory: sys.exit(2)
MainNoInputDir ==
    /\ exitCode = -1
    /\ inDir.state # "dir"
    /\ exitCode' = 2
    /\ UNCHANGED <<inDir, ext, outTable, warnings>>

\* main, from the glob to the CSV
MainScrape ==
    /\ exitCode = -1
    /\ inDir.state = "dir"
    /\ LET files == Sorted({f.name : f \in Glob(inDir.entries, ext)})
           done == ScrapeLoop(inDir.entries, files, [rows |-> <<>>, warnings |-> <<>>])
       IN  /\ outTable' = <<[header |-> CsvHeader, rows |-> done.rows]>>
           /\ warnings' = done.warnings
    /\ exitCode' = 0
    /\ UNCHANGED <<inDir, ext>>

-----------------------------------------------------------------------------
(* frequency_file_generator.py *)

GEOMETRY_COMPLETED_DIR == "geometry_inputs_completed"
FREQUENCY_OUTPUT_DIR == "frequency_inputs"
GEOMETRY_CHK_DIR == "geometry_chks"
FREQUENCY_CHK_DIR == "frequency_chks"

\* os.path.splitext(filename)[0]
SplitExtBase(filename) ==
    LET i == RFind(filename, ".")
    IN  IF i > 0 /\ \E j \in 1..(i - 1) : filename[j] # "."
        THEN SubSeq(filename, 1, i - 1)
        ELSE filename

\* FREQUENCY_HEADER.format(...)
FrequencyContent(base_name) ==
    [oldchk |-> [dir |-> GEOMETRY_CHK_DIR, name |-> base_name],
     chk |-> [dir |-> FREQUENCY_CHK_DIR,
              name |-> base_name \o <<"_", "F", "r", "e", "q">>],
     title |-> base_name]

\* os.path.join(FREQUENCY_OUTPUT_DIR, f"{base_name}_OptFreq.gjf")
FrequencyPath(base_name) ==
    [dir |-> FREQUENCY_OUTPUT_DIR,
     name |-> base_name \o <<"_", "O", "p", "t", "F", "r", "e", "q">> \o GjfExt]

\* a file opened for writing and not written: it is empty
Truncated == [oldchk |-> NoPath, chk |-> NoPath, title |-> <<>>]

\* the body of the try: open(output_filepath, "w") and f.write(frequency_content)
\* under the outcome the file system gives this write
WriteDeck(acc, filename, outcome) ==
    LET base_name == SplitExtBase(filename)
        path == FrequencyPath(base_name)
        content == FrequencyContent(base_name)
    IN  IF outcome = "ok"
        THEN [out |-> WriteFile(acc.out, path, content),
              attempts |-> Append(acc.attempts,
                                  [filename |-> filename, path |-> path, ok |-> TRUE]),
              count |-> acc.count + 1]
        ELSE [out |-> IF outcome = "write fails"
                      THEN WriteFile(acc.out, path, Truncated)
                      ELSE acc.out,
              attempts |-> Append(acc.attempts,
                                  [filename |-> filename, path |-> path, ok |-> FALSE]),
              count |-> acc.count]

RECURSIVE FrequencyLoopAbort(_, _, _, _)
\* the IOError is not caught: the first failed write ends the loop
FrequencyLoopAbort(entries, files, outcomes, acc) ==
    IF files = <<>> THEN acc
    ELSE LET f == FileNamed(entries, Head(files))
         IN  IF f.isdir
             THEN FrequencyLoopAbort(entries, Tail(files), outcomes, acc)
             ELSE IF outcomes[f.name] # "ok"
             THEN WriteDeck(acc, f.name, outcomes[f.name])
             ELSE FrequencyLoopAbort(entries, Tail(files), outcomes,
                                     WriteDeck(acc, f.name, outcomes[f.name]))

RECURSIVE FrequencyLoop(_, _, _, _)
\* "for filename in sorted(files)": directories skipped, one write each
FrequencyLoop(entries, files, outcomes, acc) ==
    IF files = <<>> THEN acc
    ELSE LET f == FileNamed(entries, Head(files))
         IN  IF f.isdir
             THEN FrequencyLoop(entries, Tail(files), outcomes, acc)
             ELSE FrequencyLoop(entries, Tail(files), outcomes,
                                WriteDeck(acc, f.name, outcomes[f.name]))

WriteOutcomes == {"ok", "open fails", "write fails"}

FreqNames == {
    <<"a">> \o GjfExt,
    <<"a">> \o LogExt,
    <<"b", "_", "c">> \o GjfExt,
    <<"s", "u", "b">> }

CompletedListings ==
    {es \in SUBSET {[name |-> n, isdir |-> d] : n \in FreqNames, d \in BOOLEAN} :
        \A f, g \in es : f.name = g.name => f = g}

NoDecks == [p \in {} |-> Truncated]

FreqInit ==
    /\ \/ completedDir = [exists |-> FALSE, entries |-> {}]
       \/ \E es \in CompletedListings : completedDir = [exists |-> TRUE, entries |-> es]
    /\ freqOut = NoDecks
    /\ attempts = <<>>
    /\ generated_count = 0
    /\ freqPc = "start"

\* generate_frequency_files, "if not os.path.isdir(GEOMETRY_COMPLETED_DIR): return"
FreqNoInputDir ==
    /\ freqPc = "start"
    /\ ~completedDir.exists
    /\ freqPc' = "no input dir"
    /\ UNCHANGED <<completedDir, freqOut, attempts, generated_count>>

\* generate_frequency_files, "if not files: return"
FreqNoFiles ==
    /\ freqPc = "start"
    /\ completedDir.exists
    /\ completedDir.entries = {}
    /\ freqPc' = "no files"
    /\ UNCHANGED <<completedDir, freqOut, attempts, generated_count>>

\* generate_frequency_files, from the loop to the summary
FreqGenerate ==
    /\ freqPc = "start"
    /\ completedDir.exists
    /\ completedDir.entries # {}
    /\ \E outcomes \in [{f.name : f \in completedDir.entries} -> WriteOutcomes] :
        LET files == Sorted({f.name : f \in completedDir.entries})
            done == FrequencyLoop(completedDir.entries, files, outcomes,
                                  [out |-> freqOut, attempts |-> <<>>, count |-> 0])
        IN  /\ freqOut' = done.out
            /\ attempts' = done.attempts
            /\ generated_count' = done.count
    /\ freqPc' = "summary"
    /\ UNCHANGED completedDir

-----------------------------------------------------------------------------
(* The generator script, run after run *)

MaxRuns == 2

DefaultDir == "geometry_input"

\* the values of GJF_OUTPUT_DIR tried: unset (the default) or another directory
OutputDirs == {DefaultDir, "custom_out"}

StaleDeck == Deck(<<"o", "l", "d">>,
                  [label |-> "stale", n |-> 0, removed |-> 0, pattern |-> <<>>],
                  "9", "9", <<AtomLine("H", "stale")>>)

\* what the output directories may hold before the first run: files the run
\* will overwrite (a base deck, intermediate decks) and one it never names
StalePaths == {
    GjfPath(DefaultDir, <<"1", "3", "5">> \o ClBz),
    GjfPath(DefaultDir, <<"1", "_">> \o AnionSuffix),
    GjfPath(DefaultDir, <<"n", "o", "t", "e", "s">>),
    GjfPath("custom_out", <<"1", "2", "_">> \o RadicalSuffix) }

NoCall == [fn |-> "none", positions |-> <<>>, results |-> <<>>, ret |-> ReturnList(<<>>)]

WriteLogOf(fn, position_list, results) ==
    [j \in 1..Len(results) |->
        [path |-> results[j].filepath, content |-> results[j].content,
         fn |-> fn, spec |-> position_list,
         removed |-> results[j].content.title.removed]]

GenIdle ==
    /\ outDir = DefaultDir
    /\ fs = [p \in {} |-> StaleDeck]
    /\ pc = "idle"
    /\ idx = 1
    /\ run = 1
    /\ generated_files = <<>>
    /\ lastCall = NoCall
    /\ writeLog = <<>>
    /\ fsAfterRun1 = [p \in {} |-> StaleDeck]

NameIdle ==
    /\ stem = <<>>
    /\ derived = NotCalled

ScrapeIdle ==
    /\ inDir = [state |-> "missing", entries |-> {}]
    /\ ext = LogExt
    /\ exitCode = -1
    /\ outTable = <<>>
    /\ warnings = <<>>

FreqIdle ==
    /\ completedDir = [exists |-> FALSE, entries |-> {}]
    /\ freqOut = NoDecks
    /\ attempts = <<>>
    /\ generated_count = 0
    /\ freqPc = "idle"

GenInit ==
    /\ outDir \in OutputDirs
    /\ \E present \in SUBSET StalePaths : fs = [p \in present |-> StaleDeck]
    /\ pc = "base"
    /\ idx = 1
    /\ run = 1
    /\ generated_files = <<>>
    /\ lastCall = NoCall
    /\ writeLog = <<>>
    /\ fsAfterRun1 = [p \in {} |-> StaleDeck]
    /\ NameIdle /\ ScrapeIdle /\ FreqIdle

\* the loop variable moves on; after the last entry, the next loop starts
Advance(nextPc) ==
    IF idx < Len(CHLORINE_POSITIONS)
    THEN idx' = idx + 1 /\ pc' = pc
    ELSE idx' = 1 /\ pc' = nextPc

\* filepath, _ = generate_gjf_files(positions); generated_files.append(filepath)
GenerateGjfFiles ==
    /\ pc = "base"
    /\ LET positions == CHLORINE_POSITIONS[idx]
           d == BaseDeck(positions)
           filepath == GjfPath(outDir, d.base)
           results == <<[filepath |-> filepath, content |-> d.content]>>
       IN  /\ fs' = WriteAll(fs, results)
           /\ lastCall' = [fn |-> "base", positions |-> positions,
                           results |-> results,
                           ret |-> ReturnTuple(filepath, d.content)]
           /\ generated_files' = Append(generated_files, filepath)
           /\ writeLog' = writeLog \o WriteLogOf("base", positions, results)
    /\ Advance("anion")
    /\ UNCHANGED <<outDir, run, fsAfterRun1, nameVars, scrapeVars, freqVars>>

\* filepath = generate_anion_intermediates(positions); generated_files.append(filepath)
GenerateAnionIntermediates ==
    /\ pc = "anion"
    /\ LET positions == CHLORINE_POSITIONS[idx]
           results == AnionResults(outDir, positions)
           ret == AnionReturn(results)
       IN  /\ fs' = WriteAll(fs, results)
           /\ lastCall' = [fn |-> "anion", positions |-> positions,
                           results |-> results, ret |-> ret]
           /\ generated_files' = Append(generated_files, ret.filepath)
           /\ writeLog' = writeLog \o WriteLogOf("anion", positions, results)
    /\ Advance("radical")
    /\ UNCHANGED <<outDir, run, fsAfterRun1, nameVars, scrapeVars, freqVars>>

\* filepath = generate_neutral_radicals_intermediates(positions); generated_files.append(filepath)
GenerateNeutralRadicalsIntermediates ==
    /\ pc = "radical"
    /\ LET positions == CHLORINE_POSITIONS[idx]
           results == RadicalResults(outDir, positions)
           ret == RadicalReturn(results)
       IN  /\ fs' = WriteAll(fs, results)
           /\ lastCall' = [fn |-> "radical", positions |-> positions,
                           results |-> results, ret |-> ret]
           /\ generated_files' = Append(generated_files, ret.filepath)
           /\ writeLog' = writeLog \o WriteLogOf("radical", positions, results)
    /\ Advance("done")
    /\ UNCHANGED <<outDir, run, fsAfterRun1, nameVars, scrapeVars, freqVars>>

\* the script is started again with the same GJF_OUTPUT_DIR on the directory
\* the previous run left
RunAgain ==
    /\ pc = "done"
    /\ run < MaxRuns
    /\ run' = run + 1
    /\ fsAfterRun1' = IF run = 1 THEN fs ELSE fsAfterRun1
    /\ pc' = "base"
    /\ idx' = 1
    /\ generated_files' = <<>>
    /\ lastCall' = NoCall
    /\ writeLog' = <<>>
    /\ UNCHANGED <<outDir, fs, nameVars, scrapeVars, freqVars>>

GenNext ==
    \/ GenerateGjfFiles
    \/ GenerateAnionIntermediates
    \/ GenerateNeutralRadicalsIntermediates
    \/ RunAgain

\* the geometry generator
SpecGen == GenInit /\ [][GenNext]_vars

\* derive_name_from_stem on every stem tried
NameNext == DeriveName /\ UNCHANGED <<genVars, scrapeVars, freqVars>>

NameSpecInit == NameInit /\ GenIdle /\ ScrapeIdle /\ FreqIdle

SpecName == NameSpecInit /\ [][NameNext]_vars

\* the log scraper
ScrapeNext ==
    \/ MainNoInputDir /\ UNCHANGED <<genVars, nameVars, freqVars>>
    \/ MainScrape /\ UNCHANGED <<genVars, nameVars, freqVars>>

ScrapeSpecInit == ScrapeInit /\ GenIdle /\ NameIdle /\ FreqIdle

SpecScrape == ScrapeSpecInit /\ [][ScrapeNext]_vars

\* the frequency deck generator
FreqNext ==
    \/ FreqNoInputDir /\ UNCHANGED <<genVars, nameVars, scrapeVars>>
    \/ FreqNoFiles /\ UNCHANGED <<genVars, nameVars, scrapeVars>>
    \/ FreqGenerate /\ UNCHANGED <<genVars, nameVars, scrapeVars>>

FreqSpecInit == FreqInit /\ GenIdle /\ NameIdle /\ ScrapeIdle

SpecFreq == FreqSpecInit /\ [][FreqNext]_vars

-----------------------------------------------------------------------------
(* Properties of the geometry generator *)

Range(s) == {s[j] : j \in 1..Len(s)}

IsIntermediateCall == lastCall.fn \in {"anion", "radical"}

\* C1: a call of generate_anion_intermediates or
\* generate_neutral_radicals_intermediates on a spec of size k writes exactly k
\* decks, the j-th removing the j-th stored position; each deck has 11 atom
\* records, the 6 carbons and then 5 substituents; every retained position of
\* the spec is Cl, every site outside the spec is H, and the removed site is
\* neither Cl nor H.
C1_IntermediateDecks ==
    IsIntermediateCall =>
        LET spec == lastCall.positions
            k == Len(spec)
            res == lastCall.results
        IN  /\ Len(res) = k
            /\ Cardinality({res[j].filepath : j \in 1..k}) = k
            /\ \A j \in 1..k :
                LET d == res[j].content
                    p == spec[j]
                    subs == Range(SubSeq(d.atoms, 7, Len(d.atoms)))
                IN  /\ d.title.removed = p
                    /\ fs[res[j].filepath] = d
                    /\ Len(d.atoms) = 11
                    /\ SubSeq(d.atoms, 1, 6) = C_ATOMS
                    /\ Cardinality(subs) = 5
                    /\ \A i \in 1..6 :
                        LET cl == AtomLine("Cl", SUBSTITUENT_COORDS[i])
                            h == AtomLine("H", SUBSTITUENT_COORDS[i])
                        IN  /\ (InSeq(i, spec) /\ i # p) => (cl \in subs /\ h \notin subs)
                            /\ ~InSeq(i, spec) => (h \in subs /\ cl \notin subs)
                            /\ i = p => (cl \notin subs /\ h \notin subs)

C1_Witness ==
    /\ lastCall.fn = "radical"
    /\ lastCall.positions = <<1, 3, 5>>
    /\ Len(lastCall.results) = 3
    /\ Len(lastCall.results[2].content.atoms) = 11

\* C2: generate_gjf_files on a spec of size k gives 12 atom records: the 6
\* carbons, then for each site i = 1..6 in table order a record with the
\* coordinates of site i that is Cl exactly when i is in the spec and H
\* otherwise, so k Cl and 6-k H.
C2_BaseGeometry ==
    lastCall.fn = "base" =>
        LET spec == lastCall.positions
            atoms == lastCall.results[1].content.atoms
        IN  /\ Len(atoms) = 12
            /\ SubSeq(atoms, 1, 6) = C_ATOMS
            /\ \A i \in 1..6 :
                /\ atoms[6 + i].coords = SUBSTITUENT_COORDS[i]
                /\ atoms[6 + i].el = "Cl" <=> i \in Range(spec)
                /\ atoms[6 + i].el = "H" <=> i \notin Range(spec)
            /\ Cardinality({i \in 1..6 : atoms[6 + i].el = "Cl"}) = Len(spec)
            /\ Cardinality({i \in 1..6 : atoms[6 + i].el = "H"}) = 6 - Len(spec)

C2_Witness ==
    /\ lastCall.fn = "base"
    /\ lastCall.positions = <<1, 2, 4, 5>>
    /\ Len(lastCall.results[1].content.atoms) = 12

\* C3: over a run of the generator no two writes target the same file path.
C3_NoPathWrittenTwice ==
    \A i, j \in 1..Len(writeLog) :
        i < j => writeLog[i].path # writeLog[j].path

C5_ReturnsListOfTuples ==
    IsIntermediateCall =>
        /\ lastCall.ret.kind = "list"
        /\ Len(lastCall.ret.list) = Len(lastCall.positions)
        /\ lastCall.ret.list = lastCall.results

\* C6: from any state of the output directory, a second (and any later) full
\* run with the same output directory setting leaves exactly the files, with
\* the contents, that the first run left.
C6_Idempotent ==
    (run >= 2 /\ pc = "done") => fs = fsAfterRun1

C6_Witness ==
    /\ run = 2
    /\ pc = "done"
    /\ outDir = DefaultDir
    /\ GjfPath(DefaultDir, <<"n", "o", "t", "e", "s">>) \in DOMAIN fs
    /\ fs[GjfPath(DefaultDir, <<"1", "_">> \o AnionSuffix)] # StaleDeck

\* C10: for every spec and removed position, the anion deck and the neutral
\* radical deck have the same atom records and the same name pattern, and
\* differ only in the charge/multiplicity line (-1 0 against 0 2), the suffix
\* of the name and the label of the title.
C10_AnionRadicalSame ==
    \A r \in Range(writeLog) :
        r.fn = "radical" =>
            LET as == {a \in Range(writeLog) :
                        a.fn = "anion" /\ a.spec = r.spec /\ a.removed = r.removed}
            IN  /\ Cardinality(as) = 1
                /\ \A a \in as :
                    /\ a.content.atoms = r.content.atoms
                    /\ a.content.title.pattern = r.content.title.pattern
                    /\ a.content.title.removed = r.content.title.removed
                    /\ a.content.title.n = r.content.title.n
                    /\ a.content.title.label = "Anion Intermediate"
                    /\ r.content.title.label = "Neutral Radical"
                    /\ a.content.chk = a.content.title.pattern \o AnionSuffix
                    /\ r.content.chk = r.content.title.pattern \o RadicalSuffix
                    /\ a.path = GjfPath(outDir, a.content.chk)
                    /\ r.path = GjfPath(outDir, r.content.chk)
                    /\ <<a.content.charge, a.content.multiplicity>> = <<"-1", "0">>
                    /\ <<r.content.charge, r.content.multiplicity>> = <<"0", "2">>

C10_Witness ==
    \E r \in Range(writeLog) :
        /\ r.fn = "radical"
        /\ r.spec = <<1, 2, 3, 4, 5, 6>>
        /\ r.removed = 4
        /\ Len(r.content.atoms) = 11

-----------------------------------------------------------------------------
(* Properties of the log scraper *)

\* the name the documentation describes: the stem before its last underscore,
\* leading underscores stripped, the stem itself when that is empty
DocumentedName(s) ==
    LET left == IF InSeq("_", s) THEN RSplitLeft(s) ELSE s
        stripped == LStrip(left, {"_"})
    IN  IF stripped = <<>> THEN s ELSE stripped

\* C8: derive_name_from_stem returns the part of the stem before its last
\* underscore (the whole stem when it has none) with leading underscores
\* stripped, and the stem unchanged when that is empty.
C8_LeadingUnderscoresStripped ==
    derived.called => derived.value = DocumentedName(stem)

\* the files of the directory that main reads: the configured extension, readable
ReadFiles == {f \in inDir.entries : EndsWith(f.name, ext) /\ f.readable}

\* the place of file f among the files read, by file name
RankAmong(files, name) == 1 + Cardinality({g \in files : TextLess(g, name)})

FoundDg(text) == {l.nums[1] : l \in {m \in Range(text) : m.kind = "dg" /\ m.nums # <<>>}}

\* C7: with the input directory missing or not a directory, main exits with
\* code 2 and writes no table; otherwise it writes the header and then one row
\* per readable file of the configured extension, in sorted file name order,
\* unreadable files being skipped (and reported) without losing the rows of
\* the others, and a value not found being an empty cell.
C7_ScraperRun ==
    exitCode # -1 =>
        IF inDir.state # "dir"
        THEN exitCode = 2 /\ outTable = <<>>
        ELSE /\ exitCode = 0
             /\ Len(outTable) = 1
             /\ outTable[1].header = <<"Name", "dG", "LUMO">>
             /\ Len(outTable[1].rows) = Cardinality(ReadFiles)
             /\ \A f \in ReadFiles :
                 LET r == outTable[1].rows[RankAmong({g.name : g \in ReadFiles}, f.name)]
                 IN  /\ r.name = derive_name_from_stem(PathStem(f.name))
                     /\ r.dG = "" <=> FoundDg(f.text) = {}
                     /\ r.dG # "" => r.dG \in FoundDg(f.text)
                     /\ r.lumo = "" <=> extract_values(f.text).lumo = <<>>
             /\ Range(warnings) =
                 {f.name : f \in {g \in inDir.entries : EndsWith(g.name, ext) /\ ~g.readable}}

\* three .log files, the middle one in sorted order unreadable, the last one
\* without a dG value: two rows
C7_Witness ==
    /\ exitCode = 0
    /\ ext = LogExt
    /\ Cardinality(inDir.entries) = 4
    /\ warnings = << <<"a", "_", "x", "_", "y">> \o LogExt >>
    /\ Len(outTable[1].rows) = 2
    /\ outTable[1].rows[1].name = <<"B">>
    /\ outTable[1].rows[2].name = <<"b">>
    /\ outTable[1].rows[2].dG = ""
    /\ outTable[1].rows[1].dG = "-123.456"

-----------------------------------------------------------------------------
(* Properties of the frequency deck generator *)

PlainFiles == {f.name : f \in {g \in completedDir.entries : ~g.isdir}}

\* C9: a failed write is reported once, not retried, and does not stop the
\* loop: every non-directory entry gets exactly one write of its
\* <base>_OptFreq.gjf, in sorted order of the entries; every written deck that
\* no later write touched is in place; the count reported is the number of
\* writes that succeeded.
C9_WriteFailureIsolated ==
    freqPc = "summary" =>
        /\ Len(attempts) = Cardinality(PlainFiles)
        /\ \A n \in PlainFiles :
            LET a == attempts[RankAmong(PlainFiles, n)]
            IN  /\ a.filename = n
                /\ a.path = [dir |-> "frequency_inputs",
                             name |-> SplitExtBase(n)
                                      \o <<"_", "O", "p", "t", "F", "r", "e", "q">> \o GjfExt]
        /\ generated_count = Cardinality({j \in 1..Len(attempts) : attempts[j].ok})
        /\ \A j \in 1..Len(attempts) :
            (attempts[j].ok /\ \A m \in (j + 1)..Len(attempts) : attempts[m].path # attempts[j].path)
                => /\ attempts[j].path \in DOMAIN freqOut
                   /\ freqOut[attempts[j].path].title = SplitExtBase(attempts[j].filename)

\* a.gjf written, b_c.gjf failed, sub written after the failure
C9_Witness ==
    /\ freqPc = "summary"
    /\ Len(attempts) = 3
    /\ attempts[1].ok /\ ~attempts[2].ok /\ attempts[3].ok
    /\ attempts[3].filename = <<"s", "u", "b">>
    /\ generated_count = 2
    /\ Cardinality(DOMAIN freqOut) = 2

====
